---- MODULE Spec2Model ----
(***************************************************************************)
(* Model of custom_components/remootio/cover.py: the cover entity that     *)
(* wraps a Remootio client.  The entity's own state is its constructor     *)
(* fields; the client (aioremootio) and the host (Home Assistant) are      *)
(* modelled as recording collaborators: the client records every call made *)
(* on it and holds its state enum and listener lists, the host records     *)
(* add-entities calls, state writes and bus events.                        *)
(***************************************************************************)
EXTENDS Integers, Sequences, FiniteSets, TLC

VARIABLES
    configured,   \* host: the ids of the configuration entries it holds
    entities,     \* entry id -> the RemootioCover built for it (domain: entries set up)
    addCalls,     \* host: the lists handed to async_add_entities, in call order
    pc,           \* entry id -> position of async_added_to_hass for its entity
    clientState,  \* client -> RemootioClient.state
    scListeners,  \* client -> state-change listeners registered, in order
    evListeners,  \* client -> event listeners registered, in order
    calls,        \* client -> the method calls made on it, in order, with outcome
    hostOps,      \* entry id -> operations the host invoked on the entity, with outcome
    notified,     \* entry id -> number of state-change notifications its listener got
    haWrites,     \* entry id -> number of async_write_ha_state calls on the entity
    haState,      \* entry id -> the properties the host read at the last state write
    changes,      \* client -> number of state changes the device made
    delivered,    \* the device events handed to event listeners, in order
    bus           \* host: the events fired on the bus, in order

vars == <<configured, entities, addCalls, pc, clientState, scListeners, evListeners, calls,
          hostOps, notified, haWrites, haState, changes, delivered, bus>>

\* ---------------------------------------------------------------- bounds

\* Total number of host commands, notifications, device events and state
\* changes in a run of a host that holds one configuration entry.
MaxWork == 3

\* The same total in a run of a host that holds both configuration entries.
MaxWorkAll == 1

\* ------------------------------------------------------------- constants

Entries == {"entry1", "entry2"}

\* The configurations of the host that are explored.
Configurations == {{"entry1"}, Entries}
Clients == {"clientA", "clientB"}

\* aioremootio.State
States == {"CLOSED", "OPEN", "CLOSING", "OPENING", "NO_SENSOR_INSTALLED"}

\* aioremootio.EventType members, by name
LEFT_OPEN == <<"L", "E", "F", "T", "_", "O", "P", "E", "N">>
RESTART == <<"R", "E", "S", "T", "A", "R", "T">>
EventTypes == {LEFT_OPEN, RESTART}

\* .const (DOMAIN is a reserved word of TLA+: the constant is REMOOTIO_DOMAIN here)
REMOOTIO_DOMAIN == <<"r", "e", "m", "o", "o", "t", "i", "o">>
CONF_SERIAL_NUMBER == "serial_number"
ATTR_SERIAL_NUMBER == "serial_number"
REMOOTIO_CLIENT == "remootio_client"
\* homeassistant.const
CONF_DEVICE_CLASS == "device_class"
ATTR_ENTITY_ID == "entity_id"
ATTR_NAME == "name"

\* The configuration entries the host can set up.
config_entry(entry) ==
    IF entry = "entry1"
    THEN [entry_id |-> "entry1", title |-> "Garage",
          data |-> (CONF_SERIAL_NUMBER :> "SN-1") @@ (CONF_DEVICE_CLASS :> "garage")]
    ELSE [entry_id |-> "entry2", title |-> "Gate",
          data |-> (CONF_SERIAL_NUMBER :> "SN-2") @@ (CONF_DEVICE_CLASS :> "gate")]

\* hass.data[REMOOTIO_DOMAIN]: entry id -> the objects stored for the entry.
hass_data ==
    ("entry1" :> (REMOOTIO_CLIENT :> "clientB")) @@
    ("entry2" :> (REMOOTIO_CLIENT :> "clientA"))

\* RemootioClient.api_version
api_version(client) == IF client = "clientA" THEN 2 ELSE 3

\* str() of an api version
str(n) == IF n = 2 THEN "2" ELSE IF n = 3 THEN "3" ELSE "?"

\* str.lower() on a string given as its characters
LowerChar(ch) ==
    CASE ch = "A" -> "a" [] ch = "B" -> "b" [] ch = "C" -> "c" [] ch = "D" -> "d"
      [] ch = "E" -> "e" [] ch = "F" -> "f" [] ch = "G" -> "g" [] ch = "H" -> "h"
      [] ch = "I" -> "i" [] ch = "J" -> "j" [] ch = "K" -> "k" [] ch = "L" -> "l"
      [] ch = "M" -> "m" [] ch = "N" -> "n" [] ch = "O" -> "o" [] ch = "P" -> "p"
      [] ch = "Q" -> "q" [] ch = "R" -> "r" [] ch = "S" -> "s" [] ch = "T" -> "t"
      [] ch = "U" -> "u" [] ch = "V" -> "v" [] ch = "W" -> "w" [] ch = "X" -> "x"
      [] ch = "Y" -> "y" [] ch = "Z" -> "z" [] OTHER -> ch

lower(s) == [i \in 1..Len(s) |-> LowerChar(s[i])]

\* Python bool as the host sees it (is_closed may also be None)
PyBool(b) == IF b THEN "True" ELSE "False"

\* ------------------------------------------------------------ the entity

\* DeviceInfo(...) as built by RemootioCover.__init__
DeviceInfo(unique_id, name, remootio_client) ==
    [identifiers |-> {<<REMOOTIO_DOMAIN, unique_id>>},
     name |-> name,
     manufacturer |-> "Assemblabs Ltd",
     model |-> "Remootio 3",
     sw_version |-> str(api_version(remootio_client))]

\* RemootioCover.__init__ with unique_id and name taken in the wrong order.
RemootioCover_swapped(unique_id, name, device_class, remootio_client) ==
    [_attr_unique_id |-> name,
     _attr_device_class |-> device_class,
     _remootio_client |-> remootio_client,
     _attr_device_info |-> DeviceInfo(name, unique_id, remootio_client)]

\* RemootioCover.__init__
RemootioCover(unique_id, name, device_class, remootio_client) ==
    [_attr_unique_id |-> unique_id,
     _attr_device_class |-> device_class,
     _remootio_client |-> remootio_client,
     _attr_device_info |-> DeviceInfo(unique_id, name, remootio_client)]

\* Entity.unique_id, Entity.device_class: the host's readers of the _attr_ fields
unique_id(entity) == entity._attr_unique_id
device_class(entity) == entity._attr_device_class

\* Entity.entity_id and Entity.name are assigned by the host when it adds the
\* entity; the host names the entity after the entry it was set up for.
entity_id(e) == IF e = "entry1" THEN "cover.garage" ELSE "cover.gate"
name(e) == IF e = "entry1" THEN "Garage" ELSE "None"

\* RemootioCover.is_opening
is_opening(entity) ==
    PyBool(clientState[entity._remootio_client] = "OPENING")

\* is_closing comparing with the wrong member of State.
is_closing_wrong_member(entity) ==
    PyBool(clientState[entity._remootio_client] = "CLOSED")

\* RemootioCover.is_closing
is_closing(entity) ==
    PyBool(clientState[entity._remootio_client] = "CLOSING")

\* is_closed without the test for a missing sensor.
is_closed_without_sensor_test(entity) ==
    PyBool(clientState[entity._remootio_client] = "CLOSED")

\* RemootioCover.is_closed
is_closed(entity) ==
    IF clientState[entity._remootio_client] = "NO_SENSOR_INSTALLED"
    THEN "None"
    ELSE PyBool(clientState[entity._remootio_client] = "CLOSED")

\* What the host reads from the entity when it writes its state.
ReadProperties(entity) ==
    [is_opening |-> is_opening(entity),
     is_closing |-> is_closing(entity),
     is_closed |-> is_closed(entity)]

\* RemootioCoverStateChangeListener.__init__, RemootioCoverEventListener.__init__
RemootioCoverStateChangeListener(owner) == [_owner |-> owner]
RemootioCoverEventListener(owner) == [_owner |-> owner]

\* --------------------------------------------------------------- helpers

RECURSIVE SumOver(_, _)
SumOver(f, S) ==
    IF S = {} THEN 0
    ELSE LET x == CHOOSE y \in S : TRUE IN f[x] + SumOver(f, S \ {x})

\* Host commands, notifications, device events and state changes so far.
Work ==
    SumOver([e \in Entries |-> Len(hostOps[e]) + notified[e]], Entries)
    + SumOver(changes, Clients) + Len(delivered)

\* The run length explored under the host's configuration.
Budget == IF Cardinality(configured) > 1 THEN MaxWorkAll ELSE MaxWork

\* A call on the client is recorded with its outcome.
Call(method, ok) == [method |-> method, ok |-> ok]

\* The host's record of an entity whose state was never written.
Unwritten ==
    [is_opening |-> "unwritten", is_closing |-> "unwritten",
     is_closed |-> "unwritten"]

\* ------------------------------------------------------------------ Init

Init ==
    /\ configured \in Configurations
    /\ entities = << >>
    /\ addCalls = << >>
    /\ pc = [e \in Entries |-> "not_added"]
    /\ clientState = [c \in Clients |-> "NO_SENSOR_INSTALLED"]
    /\ scListeners = [c \in Clients |-> << >>]
    /\ evListeners = [c \in Clients |-> << >>]
    /\ calls = [c \in Clients |-> << >>]
    /\ hostOps = [e \in Entries |-> << >>]
    /\ notified = [e \in Entries |-> 0]
    /\ haWrites = [e \in Entries |-> 0]
    /\ haState = [e \in Entries |-> Unwritten]
    /\ changes = [c \in Clients |-> 0]
    /\ delivered = << >>
    /\ bus = << >>

\* --------------------------------------------------------------- actions

\* async_setup_entry(hass, config_entry, async_add_entities); the host sets an
\* entry up once.  async_add_entities records the list and schedules the
\* entity's async_added_to_hass.
async_setup_entry(entry) ==
    /\ entry \in configured
    /\ pc[entry] = "not_added"
    /\ LET ce == config_entry(entry)
           serial_number == ce.data[CONF_SERIAL_NUMBER]
           dev_class == ce.data[CONF_DEVICE_CLASS]
           remootio_client == hass_data[ce.entry_id][REMOOTIO_CLIENT]
       IN /\ entities' = (entry :> RemootioCover(serial_number, ce.title,
                                                 dev_class, remootio_client))
                         @@ entities
          /\ addCalls' = Append(addCalls, <<entry>>)
    /\ pc' = [pc EXCEPT ![entry] = "start"]
    /\ UNCHANGED <<configured, clientState, scListeners, evListeners, calls, hostOps,
                   notified, haWrites, haState, delivered, bus, changes>>

\* self._remootio_client.<method>() as the client records it: the call is
\* logged with its outcome; ok = FALSE is the call raising.
ClientCall(client, method, ok) ==
    calls' = [calls EXCEPT ![client] = Append(@, Call(method, ok))]

\* async_added_to_hass, first await: add_state_change_listener(listener).
\* A call that raises ends the coroutine; the exception reaches the host.
added_to_hass_state_change_listener(e) ==
    /\ pc[e] = "start"
    /\ LET client == entities[e]._remootio_client IN
       \E ok \in BOOLEAN :
          /\ ClientCall(client, "add_state_change_listener", ok)
          /\ scListeners' =
                IF ok THEN [scListeners EXCEPT ![client] =
                               Append(@, RemootioCoverStateChangeListener(e))]
                ELSE scListeners
          /\ pc' = [pc EXCEPT ![e] = IF ok THEN "sc_registered" ELSE "raised"]
    /\ UNCHANGED <<configured, entities, addCalls, clientState, evListeners, hostOps,
                   notified, haWrites, haState, delivered, bus, changes>>

\* async_added_to_hass requesting the refresh before the event listener is
\* registered.
added_to_hass_refresh_first(e) ==
    /\ pc[e] = "sc_registered"
    /\ \E ok \in BOOLEAN :
          /\ ClientCall(entities[e]._remootio_client, "trigger_state_update", ok)
          /\ pc' = [pc EXCEPT ![e] = IF ok THEN "ev_registered" ELSE "raised"]
    /\ UNCHANGED <<configured, entities, addCalls, clientState, scListeners, evListeners,
                   hostOps, notified, haWrites, haState, delivered, bus, changes>>

\* async_added_to_hass, second await: add_event_listener(listener).
added_to_hass_event_listener(e) ==
    /\ pc[e] = "sc_registered"
    /\ LET client == entities[e]._remootio_client IN
       \E ok \in BOOLEAN :
          /\ ClientCall(client, "add_event_listener", ok)
          /\ evListeners' =
                IF ok THEN [evListeners EXCEPT ![client] =
                               Append(@, RemootioCoverEventListener(e))]
                ELSE evListeners
          /\ pc' = [pc EXCEPT ![e] = IF ok THEN "ev_registered" ELSE "raised"]
    /\ UNCHANGED <<configured, entities, addCalls, clientState, scListeners, hostOps,
                   notified, haWrites, haState, delivered, bus, changes>>

\* async_added_to_hass, third await: self.async_update().
added_to_hass_update(e) ==
    /\ pc[e] = "ev_registered"
    /\ LET client == entities[e]._remootio_client IN
       \E ok \in BOOLEAN :
          /\ ClientCall(client, "trigger_state_update", ok)
          /\ pc' = [pc EXCEPT ![e] = IF ok THEN "done" ELSE "raised"]
    /\ UNCHANGED <<configured, entities, addCalls, clientState, scListeners, evListeners,
                   hostOps, notified, haWrites, haState, delivered, bus, changes>>

\* A host operation that calls the client a second time when the call raised.
HostOp_retries(e, op, method) ==
    /\ e \in DOMAIN entities
    /\ Work < Budget
    /\ \E ok \in BOOLEAN, again \in BOOLEAN :
          /\ calls' = [calls EXCEPT ![entities[e]._remootio_client] =
                          IF ok THEN Append(@, Call(method, TRUE))
                          ELSE @ \o <<Call(method, FALSE), Call(method, again)>>]
          /\ hostOps' = [hostOps EXCEPT ![e] =
                            Append(@, [op |-> op, raised |-> ~(ok \/ again)])]
    /\ UNCHANGED <<configured, entities, addCalls, pc, clientState, scListeners,
                   evListeners, notified, haWrites, haState, delivered, bus,
                   changes>>

\* An operation invoked on an entity that awaits one client method; the caller
\* sees the exception of a call that raises.  The methods have no
\* precondition: they run on any constructed entity, also before, between the
\* awaits of, and after a failure of async_added_to_hass.
HostOp(e, op, method) ==
    /\ e \in DOMAIN entities
    /\ Work < Budget
    /\ \E ok \in BOOLEAN :
          /\ ClientCall(entities[e]._remootio_client, method, ok)
          /\ hostOps' = [hostOps EXCEPT ![e] =
                            Append(@, [op |-> op, raised |-> ~ok])]
    /\ UNCHANGED <<configured, entities, addCalls, pc, clientState, scListeners,
                   evListeners, notified, haWrites, haState, delivered, bus, changes>>

\* The extra keyword arguments a cover command may carry.
Kwargs == {"none", "position=50"}

\* RemootioCover.async_update, invoked by the host.
async_update(e) == HostOp(e, "async_update", "trigger_state_update")

\* async_open_cover that does not forward the command to an open door.
async_open_cover_unless_open(e, kwargs) ==
    /\ e \in DOMAIN entities
    /\ Work < Budget
    /\ calls' = IF clientState[entities[e]._remootio_client] = "OPEN"
                THEN calls
                ELSE [calls EXCEPT ![entities[e]._remootio_client] =
                         Append(@, Call("trigger_open", TRUE))]
    /\ hostOps' = [hostOps EXCEPT ![e] =
                      Append(@, [op |-> "async_open_cover", raised |-> FALSE])]
    /\ UNCHANGED <<configured, entities, addCalls, pc, clientState, scListeners,
                   evListeners, notified, haWrites, haState, delivered, bus,
                   changes>>

\* RemootioCover.async_open_cover(**kwargs)
async_open_cover(e, kwargs) == HostOp(e, "async_open_cover", "trigger_open")

\* RemootioCover.async_close_cover(**kwargs)
async_close_cover(e, kwargs) == HostOp(e, "async_close_cover", "trigger_close")

\* Entity.async_write_ha_state as the host records it: the host reads the
\* entity's properties and publishes them.
async_write_ha_state(e) ==
    /\ haWrites' = [haWrites EXCEPT ![e] = @ + 1]
    /\ haState' = [haState EXCEPT ![e] = ReadProperties(entities[e])]

\* The state changes the client can report.
StateChanges ==
    [old_state : {"CLOSED", "OPEN"}, new_state : {"OPENING", "CLOSING"}]

\* A state-change listener that also asks the client for a refresh.
state_change_listener_execute_refreshing(client, i, subject) ==
    /\ i \in 1..Len(scListeners[client])
    /\ Work < Budget
    /\ LET listener == scListeners[client][i] IN
          /\ notified' = [notified EXCEPT ![listener._owner] = @ + 1]
          /\ async_write_ha_state(listener._owner)
    /\ calls' = [calls EXCEPT ![client] =
                    Append(@, Call("trigger_state_update", TRUE))]
    /\ UNCHANGED <<configured, entities, addCalls, pc, clientState, scListeners,
                   evListeners, hostOps, delivered, bus, changes>>

\* RemootioCoverStateChangeListener.execute(client, subject); the client
\* runs the listeners registered on it.
state_change_listener_execute(client, i, subject) ==
    /\ i \in 1..Len(scListeners[client])
    /\ Work < Budget
    /\ LET listener == scListeners[client][i] IN
          /\ notified' = [notified EXCEPT ![listener._owner] = @ + 1]
          /\ async_write_ha_state(listener._owner)
    /\ UNCHANGED <<configured, entities, addCalls, pc, clientState, scListeners,
                   evListeners, calls, hostOps, delivered, bus, changes>>

\* f"{DOMAIN.lower()}_{subject.type.name.lower()}"
EventTypeName(type) == lower(REMOOTIO_DOMAIN) \o <<"_">> \o lower(type)

\* Event data with the name in place of the serial number.
EventData_name_as_serial(owner) ==
    (ATTR_ENTITY_ID :> entity_id(owner)) @@
    (ATTR_SERIAL_NUMBER :> name(owner)) @@
    (ATTR_NAME :> name(owner))

\* The data of the bus event fired for the owner.
EventData(owner) ==
    (ATTR_ENTITY_ID :> entity_id(owner)) @@
    (ATTR_SERIAL_NUMBER :> unique_id(entities[owner])) @@
    (ATTR_NAME :> name(owner))

\* An event listener that publishes every device event.
EventListenerBus_every_type(owner, subject) ==
    Append(bus, [event_type |-> EventTypeName(subject.type),
                 data |-> EventData(owner)])

\* The bus after RemootioCoverEventListener.execute ran for the owner.
EventListenerBus(owner, subject) ==
    IF subject.type = LEFT_OPEN
    THEN Append(bus, [event_type |-> EventTypeName(subject.type),
                      data |-> EventData(owner)])
    ELSE bus

\* An event listener that also writes the owner's state.
event_listener_execute_writing(client, i, subject) ==
    /\ i \in 1..Len(evListeners[client])
    /\ Work < Budget
    /\ LET listener == evListeners[client][i] IN
          /\ delivered' = Append(delivered, [owner |-> listener._owner,
                                             type |-> subject.type])
          /\ bus' = EventListenerBus(listener._owner, subject)
          /\ async_write_ha_state(listener._owner)
    /\ UNCHANGED <<configured, entities, addCalls, pc, clientState, scListeners,
                   evListeners, calls, hostOps, notified, changes>>

\* RemootioCoverEventListener.execute(client, subject)
event_listener_execute(client, i, subject) ==
    /\ i \in 1..Len(evListeners[client])
    /\ Work < Budget
    /\ LET listener == evListeners[client][i] IN
          /\ delivered' = Append(delivered, [owner |-> listener._owner,
                                             type |-> subject.type])
          /\ bus' = EventListenerBus(listener._owner, subject)
    /\ UNCHANGED <<configured, entities, addCalls, pc, clientState, scListeners,
                   evListeners, calls, hostOps, notified, haWrites, haState, changes>>

\* The state of a client the host holds changes under the device's control.
client_state_change(client, s) ==
    /\ \E e \in configured : hass_data[e][REMOOTIO_CLIENT] = client
    /\ s # clientState[client]
    /\ Work < Budget
    /\ clientState' = [clientState EXCEPT ![client] = s]
    /\ changes' = [changes EXCEPT ![client] = @ + 1]
    /\ UNCHANGED <<configured, entities, addCalls, pc, scListeners, evListeners, calls,
                   hostOps, notified, haWrites, haState, delivered, bus>>

Next ==
    \/ \E e \in Entries : async_setup_entry(e)
    \/ \E e \in Entries : added_to_hass_state_change_listener(e)
    \/ \E e \in Entries : added_to_hass_event_listener(e)
    \/ \E e \in Entries : added_to_hass_update(e)
    \/ \E e \in Entries : async_update(e)
    \/ \E e \in Entries, kwargs \in Kwargs : async_open_cover(e, kwargs)
    \/ \E e \in Entries, kwargs \in Kwargs : async_close_cover(e, kwargs)
    \/ \E c \in Clients, i \in 1..2, subject \in StateChanges :
          state_change_listener_execute(c, i, subject)
    \/ \E c \in Clients, i \in 1..2, t \in EventTypes :
          event_listener_execute(c, i, [type |-> t])
    \/ \E c \in Clients, s \in States : client_state_change(c, s)

Spec == Init /\ [][Next]_vars

\* ------------------------------------------------------- claim vocabulary

\* The client of the entity set up for entry e.
ClientOf(e) == entities[e]._remootio_client

\* The entries whose entity exists.
Added == DOMAIN entities

\* The three client calls of a successful activation, in order.
ActivationCalls ==
    <<"add_state_change_listener", "add_event_listener", "trigger_state_update">>

\* The client method each host operation is expected to call.
ExpectedMethod(op) ==
    CASE op = "async_open_cover" -> "trigger_open"
      [] op = "async_close_cover" -> "trigger_close"
      [] op = "async_update" -> "trigger_state_update"

\* The three properties as a table over the client's state.
ExpectedProperties(st) ==
    [is_opening |-> IF st = "OPENING" THEN "True" ELSE "False",
     is_closing |-> IF st = "CLOSING" THEN "True" ELSE "False",
     is_closed |-> IF st = "NO_SENSOR_INSTALLED" THEN "None"
                   ELSE IF st = "CLOSED" THEN "True" ELSE "False"]

\* The bus event a LEFT_OPEN device event is expected to publish for owner.
ExpectedLeftOpenEvent(owner) ==
    [event_type |-> <<"r", "e", "m", "o", "o", "t", "i", "o", "_",
                      "l", "e", "f", "t", "_", "o", "p", "e", "n">>,
     data |-> [entity_id |-> entity_id(owner),
               serial_number |-> entities[owner]._attr_unique_id,
               name |-> name(owner)]]

\* The bus expected after the device events of log were handed over.
RECURSIVE ExpectedBus(_)
ExpectedBus(log) ==
    IF log = << >> THEN << >>
    ELSE LET n == Len(log)
             rest == ExpectedBus(SubSeq(log, 1, n - 1))
         IN IF log[n].type = LEFT_OPEN
            THEN Append(rest, ExpectedLeftOpenEvent(log[n].owner))
            ELSE rest

\* ---------------------------------------------------------------- claims

\* The position of async_added_to_hass before its k-th await.
ActivationPc == <<"start", "sc_registered", "ev_registered", "done">>

\* The listeners a client holds for entry e at each position of activation.
ListenersAt(e) ==
    LET own == <<[_owner |-> e]>> IN
    CASE pc[e] = "start" -> [sc |-> {<< >>}, ev |-> {<< >>}]
      [] pc[e] = "sc_registered" -> [sc |-> {own}, ev |-> {<< >>}]
      [] pc[e] \in {"ev_registered", "done"} -> [sc |-> {own}, ev |-> {own}]
      [] pc[e] = "raised" -> [sc |-> {<< >>, own}, ev |-> {<< >>, own}]

\* C1: activation makes exactly three client calls, one per step and in this
\* order: it registers one state-change listener owned by the entity, then
\* one event listener owned by the entity, then requests one state refresh;
\* when activation requests the refresh both listeners are registered.
C1_ActivationOrder ==
    /\ [](\A e \in Added :
             /\ scListeners[ClientOf(e)] \in ListenersAt(e).sc
             /\ evListeners[ClientOf(e)] \in ListenersAt(e).ev)
    /\ [][\A e \in Added :
             pc'[e] # pc[e] =>
                \E k \in 1..3, ok \in BOOLEAN :
                   /\ pc[e] = ActivationPc[k]
                   /\ pc'[e] = IF ok THEN ActivationPc[k + 1] ELSE "raised"
                   /\ calls' = [calls EXCEPT ![ClientOf(e)] =
                                   Append(@, Call(ActivationCalls[k], ok))]
                   /\ hostOps' = hostOps]_vars

C1_Witness ==
    \E e \in Added :
        /\ pc[e] = "done"
        /\ Len(hostOps[e]) = 1
        /\ calls[ClientOf(e)][2].method = "trigger_open"
        /\ calls[ClientOf(e)][4].method = "trigger_state_update"

\* C2: whenever the host reads the three properties (at a state write) it gets
\* the values the table gives for the client's state at that moment, whatever
\* state changes came before.
C2_PropertiesAtRead ==
    [][\A e \in Added :
          haWrites'[e] # haWrites[e] =>
             haState'[e] = ExpectedProperties(clientState[ClientOf(e)])]_vars

C2_Witness ==
    \E e \in Added :
        /\ haWrites[e] > 0
        /\ changes[ClientOf(e)] > 0
        /\ haState[e].is_closing = "True"

\* C3: a command calls exactly one client method, once: async_open_cover
\* adds one trigger_open call to the entity's client and async_close_cover one
\* trigger_close call, nothing else is called, in every client state and at
\* every position of the entity's activation.
C3_OneCallPerCommand ==
    [][\A e \in Added :
          hostOps'[e] # hostOps[e] =>
             LET op == hostOps'[e][Len(hostOps'[e])].op IN
             /\ Len(hostOps'[e]) = Len(hostOps[e]) + 1
             /\ op \in {"async_open_cover", "async_close_cover"} =>
                   \E ok \in BOOLEAN :
                      calls' = [calls EXCEPT ![ClientOf(e)] =
                                   Append(@, Call(ExpectedMethod(op), ok))]]_vars

C3_Witness ==
    \E e \in Added :
        /\ clientState[ClientOf(e)] = "OPEN"
        /\ changes[ClientOf(e)] = 1
        /\ Len(hostOps[e]) = 1
        /\ hostOps[e][1].op = "async_open_cover"
        /\ calls[ClientOf(e)] = <<Call("trigger_open", TRUE)>>

\* C4: a state-change notification handed to an entity's listener causes one
\* host state write for that entity, no other write, no bus event and no
\* client call.
C4_NotificationWritesOnce ==
    [][\A e \in Entries :
          notified'[e] # notified[e] =>
             /\ notified'[e] = notified[e] + 1
             /\ haWrites' = [haWrites EXCEPT ![e] = @ + 1]
             /\ bus' = bus
             /\ calls' = calls]_vars

C4_Witness == \E e \in Entries : notified[e] = 2 /\ haWrites[e] = 2

\* C5: the bus holds one event per LEFT_OPEN device event handed to an event
\* listener, in order, named remootio_left_open and carrying entity id,
\* serial number and name of the owner; other device events publish nothing.
C5_BusEventIffLeftOpen ==
    /\ bus = ExpectedBus(delivered)
    /\ \A i \in 1..Len(bus) :
          DOMAIN bus[i].data = {ATTR_ENTITY_ID, ATTR_SERIAL_NUMBER, ATTR_NAME}

C5_Witness ==
    /\ Len(delivered) = 2
    /\ delivered[1].type = RESTART
    /\ delivered[2].type = LEFT_OPEN
    /\ Len(bus) = 1

\* C6: each entry set up has one entity, handed to the host in one
\* add-entities call of one element; its unique id, device class and client
\* are the entry's serial number, the entry's device class and the client
\* stored under the entry's id; until activation starts its client has seen
\* no call but those of the operations invoked on the entity.
C6_SetupRegistersOneEntity ==
    /\ Added = {e \in Entries : pc[e] # "not_added"}
    /\ Len(addCalls) = Cardinality(Added)
    /\ \A i \in 1..Len(addCalls) : Len(addCalls[i]) = 1
    /\ \A e \in Added :
          /\ Cardinality({i \in 1..Len(addCalls) : addCalls[i] = <<e>>}) = 1
          /\ unique_id(entities[e]) = config_entry(e).data["serial_number"]
          /\ device_class(entities[e]) = config_entry(e).data["device_class"]
          /\ entities[e]._remootio_client = hass_data[e]["remootio_client"]
          /\ pc[e] = "start" =>
                Len(calls[hass_data[e]["remootio_client"]]) = Len(hostOps[e])

C6_Witness ==
    /\ Added = Entries
    /\ pc["entry1"] = "start"
    /\ pc["entry2"] = "done"

\* C7: a failing client call is made once and its failure reaches the caller:
\* an operation invoked on the entity makes one call and raises exactly when
\* that call failed; an activation raises at its failing call, registers
\* nothing with it and takes no further step (after a failed state-change
\* listener registration no event listener is registered and activation
\* requests no refresh).
C7_NoRetryNoHandling ==
    /\ [](\A e \in Added :
             pc[e] = "raised" /\ scListeners[ClientOf(e)] = << >> =>
                 evListeners[ClientOf(e)] = << >>)
    /\ [][\A e \in Added :
             LET c == ClientOf(e)
                 n == Len(calls[c]) IN
             /\ hostOps'[e] # hostOps[e] =>
                   /\ Len(calls'[c]) = n + 1
                   /\ SubSeq(calls'[c], 1, n) = calls[c]
                   /\ hostOps'[e][Len(hostOps'[e])].raised = ~calls'[c][n + 1].ok
             /\ pc[e] # "raised" /\ pc'[e] = "raised" =>
                   /\ Len(calls'[c]) = n + 1
                   /\ ~calls'[c][n + 1].ok
                   /\ scListeners' = scListeners
                   /\ evListeners' = evListeners
             /\ pc[e] = "raised" =>
                   /\ pc'[e] = "raised"
                   /\ scListeners'[c] = scListeners[c]
                   /\ evListeners'[c] = evListeners[c]
                   /\ calls'[c] # calls[c] => hostOps'[e] # hostOps[e]]_vars

C7_Witness ==
    \E e \in Added :
        /\ pc[e] = "raised"
        /\ scListeners[ClientOf(e)] = << >>
        /\ Len(hostOps[e]) = 2
        /\ hostOps[e][1].raised
        /\ ~hostOps[e][2].raised
        /\ calls[ClientOf(e)][2] = Call("add_state_change_listener", FALSE)

\* C8: the host state writes of an entity are as many as the state-change
\* notifications handed to its listener, whatever commands, updates and
\* device events there were, and there is none while the client holds no
\* state-change listener of the entity.
C8_WritesOnlyOnNotification ==
    \A e \in Entries :
        /\ haWrites[e] = notified[e]
        /\ haWrites[e] > 0 =>
              /\ e \in Added
              /\ \E i \in 1..Len(scListeners[ClientOf(e)]) :
                    scListeners[ClientOf(e)][i]._owner = e
        /\ haWrites[e] = 0 <=> haState[e] = Unwritten

C8_Witness ==
    \E e \in Added :
        /\ haWrites[e] = 1
        /\ Len(hostOps[e]) = 1

\* C9: at most one of the three properties is true; without a sensor
\* is_closed is None and the others are false; in a state other than OPENING,
\* CLOSING, CLOSED and NO_SENSOR_INSTALLED all three are false.
C9_PropertiesExclusive ==
    \A e \in Added :
        LET p == ReadProperties(entities[e])
            st == clientState[ClientOf(e)] IN
        /\ Cardinality({k \in DOMAIN p : p[k] = "True"}) <= 1
        /\ st = "NO_SENSOR_INSTALLED" =>
              p.is_closed = "None" /\ p.is_opening = "False"
                                   /\ p.is_closing = "False"
        /\ st \notin {"OPENING", "CLOSING", "CLOSED", "NO_SENSOR_INSTALLED"} =>
              \A k \in DOMAIN p : p[k] = "False"

C9_Witness ==
    \E e \in Added :
        /\ clientState[ClientOf(e)] = "OPEN"
        /\ haWrites[e] > 0
        /\ haState[e] = ReadProperties(entities[e])

\* C10: the serial number of every bus event is the serial number of the
\* entry its entity was set up for, and every entity's unique id stays that
\* serial number.
C10_SerialNumberOfEntry ==
    /\ \A e \in Added :
          entities[e]._attr_unique_id = config_entry(e).data[CONF_SERIAL_NUMBER]
    /\ \A i \in 1..Len(bus) :
          \E e \in Added :
             /\ bus[i].data[ATTR_ENTITY_ID] = entity_id(e)
             /\ bus[i].data[ATTR_SERIAL_NUMBER]
                   = config_entry(e).data[CONF_SERIAL_NUMBER]

C10_Witness ==
    /\ Added = Entries
    /\ Len(evListeners[ClientOf("entry1")]) = 1
    /\ Len(bus) = 1
    /\ bus[1].data[ATTR_SERIAL_NUMBER] = "SN-2"

====
